---- MODULE Spec2Model ----
(***************************************************************************)
(* gotenable: the generic paginated Iterator (pkg/base) and the export     *)
(* job polling built on it (pkg/tio ExportsAPI).                           *)
(*                                                                         *)
(* The specifications share the definitions below:                         *)
(*   Spec        an Iterator over a fetcher backed by a fixed collection   *)
(*   SpecWait    ExportsAPI.WaitForExport called directly                  *)
(*   SpecExport  ExportsAPI.AssetsIterator: Iterator + export closure      *)
(*   SpecHistory ScansAPI.History: Iterator with a caller-supplied limit   *)
(*   SpecChannel Iterator.Channel: producer goroutine and consumer         *)
(*   SpecWaitOn  WaitForExport against a backend that may never finish     *)
(*   SpecPoll    the polling loops of ExportsAPI, ScansAPI, WorkbenchesAPI *)
(***************************************************************************)
EXTENDS Integers, Sequences, FiniteSets, TLC

VARIABLES
    it,           \* the Iterator struct
    src,          \* the fixed collection behind the test fetcher
    startOffset,  \* the offset the iterator was created with
    failAt,       \* the fetcher invocation that fails (0: none)
    failKind,     \* "fetch": the fetcher fails, "transform": the transformer
    fetcherKind,  \* "total": pages carry total = N, "none": no pagination info
    poller,       \* the polling loop that runs: "exports", "scans", "workbenches"
    fetchArgs,    \* the (offset, limit) of every fetcher invocation
    gotLog,       \* the number of items every fetch decoded to, -1 if it failed
    lastCall,     \* the All(), Take(n) or ForEach(fn) call that just returned
    ppc,          \* Channel(): where the producer goroutine is
    received,     \* Channel(): items the consumer received
    closes,       \* Channel(): number of close(ch) executed
    stopped,      \* Channel(): the consumer has stopped receiving
    yielded,      \* items handed out by Next() calls that returned true
    pagelog,      \* the pages decoded by successful fetches, in fetch order
    fetches,      \* number of fetcher invocations
    lastRet,      \* result of the last Next(): "none", "true", "false"
    falseRets,    \* number of Next() calls that returned false
    exportUUID,   \* closure variable of AssetsIterator
    status,       \* closure variable of AssetsIterator
    currentChunk, \* closure variable of AssetsIterator
    epc,          \* where a Next() of the export iterator is suspended
    chunkSize,    \* backend: number of items held by each chunk id
    submits,      \* number of submit requests issued
    waitCalls,    \* number of WaitForExport calls
    downloads,    \* chunk ids requested, in order
    faulted,      \* a transport failure or a cancellation happened
    wpc,          \* WaitForExport: "none", "poll", "wait", "returned"
    polls,        \* status polls issued by the current WaitForExport call
    waits,        \* waits completed by the current WaitForExport call
    pollLog,      \* statuses reported to the current WaitForExport call
    lastPoll,     \* the last status response received
    wret,         \* what WaitForExport returned
    cancelled,    \* the caller's context is done
    exportType,   \* WaitForExport: the exportType argument
    outcomes      \* (cause, kind) of every failed WaitForExport call

cvars == <<ppc, received, closes, stopped>>
params == <<src, startOffset, failAt, failKind, fetcherKind, poller>>
cfg == <<params, lastCall, cvars>>
ivars == <<it, cfg, yielded, pagelog, fetches, fetchArgs, gotLog, lastRet, falseRets>>
evars == <<exportUUID, status, currentChunk, epc, chunkSize, submits, waitCalls,
           downloads, faulted>>
wvars == <<wpc, polls, waits, pollLog, lastPoll, wret, cancelled, exportType,
           outcomes>>
vars == <<ivars, evars, wvars>>

----------------------------------------------------------------------------
(* Bounds *)

MaxN == 5              \* size of the fixed collection
MaxLimit == 3          \* page size
MaxPagesCap == 1       \* maxPages option
MaxFailAt == 2         \* which fetch fails
MaxFalseRets == 2      \* Next() calls answered false that are explored
MaxPolls == 3          \* status polls per WaitForExport call
MaxChunks == 2         \* length of chunks_available
MaxChunkId == 2        \* chunk identifiers
MaxChunkItems == 2     \* items per chunk
MaxWaitCalls == 2   \* direct WaitForExport calls
MaxTake == 2        \* largest n of Take(n)
MaxVisitFail == 2   \* the visitor of ForEach fails on call 1..MaxVisitFail, or never

----------------------------------------------------------------------------
(* Helpers *)

Min(a, b) == IF a < b THEN a ELSE b

RECURSIVE Flatten(_)
Flatten(ss) == IF Len(ss) = 0 THEN <<>> ELSE Head(ss) \o Flatten(Tail(ss))

IsPrefix(s, t) == Len(s) <= Len(t) /\ SubSeq(t, 1, Len(s)) = s

----------------------------------------------------------------------------
(* Errors *)

NoErr == [type |-> "nil", msg |-> ""]
ConnectionError == [type |-> "ConnectionError", msg |-> "request failed"]
APIError == [type |-> "APIError", msg |-> "status"]
JSONError == [type |-> "json.SyntaxError", msg |-> "invalid"]
ContextCanceled == [type |-> "context.Canceled", msg |-> "context canceled"]
ExportError(m) == [type |-> "ExportError", msg |-> m]
ValidationError == [type |-> "ValidationError", msg |-> "invalid export type"]
FileDownloadError == [type |-> "FileDownloadError", msg |-> "file download failed"]
TransformError(e) == [type |-> "fmt.wrapError", msg |-> "failed to transform page data"]

----------------------------------------------------------------------------
(* Iterator *)

NoPagination == [present |-> FALSE, total |-> 0]
Pagination(t) == [present |-> TRUE, total |-> t]
RawPage(items) == [ok |-> TRUE, items |-> items]
BadPage == [ok |-> FALSE, items |-> <<>>]
FetchOK(data, pg) == [data |-> data, pagination |-> pg, err |-> NoErr]
FetchFail(e) == [data |-> BadPage, pagination |-> NoPagination, err |-> e]

\* Mutant: the offset option is dropped.
NewIterator_noOffset(limit, offset, maxPages) ==
    [limit |-> limit, offset |-> 0, total |-> -1, page |-> <<>>,
     pageIndex |-> 0, count |-> 0, maxPages |-> maxPages, pagesLoaded |-> 0,
     done |-> FALSE, err |-> NoErr, current |-> 0]

NewIterator(limit, offset, maxPages) ==
    [limit |-> limit, offset |-> offset, total |-> -1, page |-> <<>>,
     pageIndex |-> 0, count |-> 0, maxPages |-> maxPages, pagesLoaded |-> 0,
     done |-> FALSE, err |-> NoErr, current |-> 0]

transformer(data) ==
    IF data.ok THEN [items |-> data.items, err |-> NoErr]
    ELSE [items |-> <<>>, err |-> JSONError]

\* Mutant: a recorded error does not stop the iterator.
Stopped_doneOnly(i) == i.done

Stopped(i) == i.done \/ i.err # NoErr

TotalReached(i) == i.total >= 0 /\ i.count >= i.total

\* Mutant: the page cap is off by one.
PageCapReached_offByOne(i) == i.maxPages > 0 /\ i.pagesLoaded > i.maxPages

PageCapReached(i) == i.maxPages > 0 /\ i.pagesLoaded >= i.maxPages

\* Mutant: the pagination info of a page is ignored.
UpdateTotal_ignored(i, pg) == i

UpdateTotal(i, pg) == IF pg.present THEN [i EXCEPT !.total = pg.total] ELSE i

FetchedEverything(i) == i.total >= 0 /\ i.offset >= i.total

\* Mutant: the offset is not advanced.
AdvanceOffset_stuck(i, items) == i.offset

AdvanceOffset(i, items) == i.offset + Len(items)

\* Mutant: the first item of a page is not counted.
LoadPage_noCount(i, items) ==
    [i EXCEPT !.page = items, !.pageIndex = 1, !.offset = AdvanceOffset(i, items),
              !.pagesLoaded = i.pagesLoaded + 1, !.current = items[1]]

LoadPage(i, items) ==
    [i EXCEPT !.page = items, !.pageIndex = 1, !.offset = AdvanceOffset(i, items),
              !.pagesLoaded = i.pagesLoaded + 1, !.current = items[1],
              !.count = i.count + 1]

\* Mutant: the end of the sequence is not recorded.
Finish_forgets(i) == i

\* it.done = true
Finish(i) == [i EXCEPT !.done = TRUE]

\* Mutant: a page without items is recorded as a failure.
OnEmptyPage_fails(i) == [i EXCEPT !.err = APIError]

\* if len(items) == 0 { it.done = true; return false }
OnEmptyPage(i) == Finish(i)

\* res is what the fetcher returns for (i.offset, i.limit); it is looked at
\* only when the fetcher is reached, and then "fetched" is TRUE.
fetchNextPage(i, res) ==
    IF PageCapReached(i) \/ FetchedEverything(i)
    THEN [it |-> Finish(i), ret |-> FALSE, fetched |-> FALSE, got |-> -1]
    ELSE IF res.err # NoErr
    THEN [it |-> [i EXCEPT !.err = res.err], ret |-> FALSE, fetched |-> TRUE, got |-> -1]
    ELSE LET i1 == UpdateTotal(i, res.pagination)
             tr == transformer(res.data)
         IN  IF tr.err # NoErr
             THEN [it |-> [i1 EXCEPT !.err = TransformError(tr.err)],
                   ret |-> FALSE, fetched |-> TRUE, got |-> -1]
             ELSE IF Len(tr.items) = 0
             THEN [it |-> OnEmptyPage(i1), ret |-> FALSE, fetched |-> TRUE, got |-> 0]
             ELSE [it |-> LoadPage(i1, tr.items), ret |-> TRUE, fetched |-> TRUE,
                   got |-> Len(tr.items)]

\* Mutant: the next page is fetched while one item of the page is left.
PageConsumed_early(i) == i.pageIndex + 1 >= Len(i.page)

\* if it.pageIndex >= len(it.page)
PageConsumed(i) == i.pageIndex >= Len(i.page)

IterNext(i, res) ==
    IF Stopped(i)
    THEN [it |-> i, ret |-> FALSE, fetched |-> FALSE, got |-> -1]
    ELSE IF TotalReached(i)
    THEN [it |-> Finish(i), ret |-> FALSE, fetched |-> FALSE, got |-> -1]
    ELSE IF PageConsumed(i)
    THEN fetchNextPage(i, res)
    ELSE [it |-> [i EXCEPT !.current = i.page[i.pageIndex + 1],
                           !.pageIndex = i.pageIndex + 1,
                           !.count = i.count + 1],
          ret |-> TRUE, fetched |-> FALSE, got |-> -1]

\* Mutant: the offset of a fetch is computed from the pages loaded.
FetchArgs_byPage(i) == [offset |-> startOffset + i.pagesLoaded * i.limit, limit |-> i.limit]

\* it.fetcher(it.ctx, it.offset, it.limit)
FetchArgs(i) == [offset |-> i.offset, limit |-> i.limit]

\* The bookkeeping every completed Next() call leaves behind.
Returned(r) ==
    /\ it' = r.it
    /\ lastRet' = IF r.ret THEN "true" ELSE "false"
    /\ falseRets' = IF r.ret THEN falseRets ELSE falseRets + 1
    /\ yielded' = IF r.ret THEN Append(yielded, r.it.current) ELSE yielded
    /\ fetches' = IF r.fetched THEN fetches + 1 ELSE fetches
    /\ pagelog' = IF r.fetched /\ r.ret THEN Append(pagelog, r.it.page) ELSE pagelog
    /\ fetchArgs' = IF r.fetched
                    THEN Append(fetchArgs, FetchArgs(it))
                    ELSE fetchArgs
    /\ gotLog' = IF r.fetched THEN Append(gotLog, r.got) ELSE gotLog

----------------------------------------------------------------------------
(* The fetcher of TestIterator, with an injected failure *)

createFetcher(offset, limit) ==
    LET end == Min(offset + limit, Len(src))
    IN  IF offset >= Len(src)
        THEN FetchOK(RawPage(<<>>), Pagination(Len(src)))
        ELSE FetchOK(RawPage(SubSeq(src, offset + 1, end)), Pagination(Len(src)))

\* The same collection behind a fetcher that returns a nil *PaginationInfo.
plainFetcher(offset, limit) ==
    [createFetcher(offset, limit) EXCEPT !.pagination = NoPagination]

sourceFetcher(offset, limit) ==
    IF fetcherKind = "total" THEN createFetcher(offset, limit)
    ELSE plainFetcher(offset, limit)

\* The fetcher when f invocations have been made: invocation failAt fails.
faultyFetcherAt(f, offset, limit) ==
    IF failAt # 0 /\ f + 1 = failAt
    THEN IF failKind = "fetch" THEN FetchFail(ConnectionError)
         ELSE FetchOK(BadPage, sourceFetcher(offset, limit).pagination)
    ELSE sourceFetcher(offset, limit)

faultyFetcher(offset, limit) == faultyFetcherAt(fetches, offset, limit)

----------------------------------------------------------------------------
(* All, Take, ForEach: loops over Next() *)

\* The iterator and its bookkeeping, as a value a loop can thread through.
CurRun ==
    [it |-> it, yielded |-> yielded, pagelog |-> pagelog, fetches |-> fetches,
     fetchArgs |-> fetchArgs, gotLog |-> gotLog, lastRet |-> lastRet,
     falseRets |-> falseRets]

\* One Next() call inside a loop; the same bookkeeping as Returned.
NextRun(m) ==
    LET r == IterNext(m.it, faultyFetcherAt(m.fetches, FetchArgs(m.it).offset,
                                            FetchArgs(m.it).limit))
    IN  [it |-> r.it,
         yielded |-> IF r.ret THEN Append(m.yielded, r.it.current) ELSE m.yielded,
         pagelog |-> IF r.fetched /\ r.ret THEN Append(m.pagelog, r.it.page)
                     ELSE m.pagelog,
         fetches |-> IF r.fetched THEN m.fetches + 1 ELSE m.fetches,
         fetchArgs |-> IF r.fetched
                       THEN Append(m.fetchArgs, FetchArgs(m.it))
                       ELSE m.fetchArgs,
         gotLog |-> IF r.fetched THEN Append(m.gotLog, r.got) ELSE m.gotLog,
         lastRet |-> IF r.ret THEN "true" ELSE "false",
         falseRets |-> IF r.ret THEN m.falseRets ELSE m.falseRets + 1]

\* for it.Next() { items = append(items, it.Item()) }
\* A loop over a collection of Len(src) items is unfolded at most fuel times.
RECURSIVE AllLoop(_, _, _)
AllLoop(m, items, fuel) ==
    LET m1 == NextRun(m)
    IN  IF m1.lastRet = "true"
        THEN IF fuel = 0 THEN [m |-> m1, items |-> Append(items, m1.it.current)]
             ELSE AllLoop(m1, Append(items, m1.it.current), fuel - 1)
        ELSE [m |-> m1, items |-> items]

\* for i := 0; i < n && it.Next(); i++ { items = append(items, it.Item()) }
RECURSIVE TakeLoop(_, _, _)
TakeLoop(m, items, n) ==
    IF n <= 0 THEN [m |-> m, items |-> items]
    ELSE LET m1 == NextRun(m)
         IN  IF m1.lastRet = "true"
             THEN TakeLoop(m1, Append(items, m1.it.current), n - 1)
             ELSE [m |-> m1, items |-> items]

VisitorError == [type |-> "errors.errorString", msg |-> "visitor failed"]

\* The visitor fails on its failOn-th call (never when failOn = 0).
visitor(calls, failOn) == IF failOn # 0 /\ calls = failOn THEN VisitorError ELSE NoErr

\* for it.Next() { if err := fn(it.Item()); err != nil { return err } }
\* return it.err
RECURSIVE ForEachLoop(_, _, _, _)
ForEachLoop(m, visited, failOn, fuel) ==
    LET m1 == NextRun(m)
        v1 == Append(visited, m1.it.current)
    IN  IF m1.lastRet = "true"
        THEN IF visitor(Len(v1), failOn) # NoErr
             THEN [m |-> m1, visited |-> v1, err |-> VisitorError]
             ELSE IF fuel = 0 THEN [m |-> m1, visited |-> v1, err |-> m1.it.err]
             ELSE ForEachLoop(m1, v1, failOn, fuel - 1)
        ELSE [m |-> m1, visited |-> visited, err |-> m1.it.err]

\* What a loop hands back: nil items together with it.err, or the items.
\* Mutant: the recorded error is not reported.
LoopResult_noErr(r) == [items |-> r.items, err |-> NoErr]

LoopResult(r) ==
    IF r.m.it.err # NoErr THEN [items |-> <<>>, err |-> r.m.it.err]
    ELSE [items |-> r.items, err |-> NoErr]

All(m) == LET r == AllLoop(m, <<>>, Len(src)) IN [m |-> r.m, res |-> LoopResult(r)]

\* Mutant: the loop runs while i <= n.
Take_eager(m, n) ==
    LET r == TakeLoop(m, <<>>, n + 1) IN [m |-> r.m, res |-> LoopResult(r)]

Take(m, n) == LET r == TakeLoop(m, <<>>, n) IN [m |-> r.m, res |-> LoopResult(r)]

\* Mutant: the visitor's error does not end the loop.
ForEach_noExit(m, failOn) == ForEachLoop(m, <<>>, 0, Len(src))

ForEach(m, failOn) == ForEachLoop(m, <<>>, failOn, Len(src))

NoCall ==
    [op |-> "none", arg |-> 0, pre |-> <<>>, items |-> <<>>, err |-> NoErr,
     visited |-> <<>>, collected |-> <<>>]

\* The caller's view when a loop has returned: the iterator it left behind.
Install(m) ==
    /\ it' = m.it
    /\ yielded' = m.yielded
    /\ pagelog' = m.pagelog
    /\ fetches' = m.fetches
    /\ fetchArgs' = m.fetchArgs
    /\ gotLog' = m.gotLog
    /\ lastRet' = m.lastRet
    /\ falseRets' = m.falseRets

----------------------------------------------------------------------------
(* ExportsAPI.WaitForExport *)

NoStatus == [present |-> FALSE, status |-> "", chunks |-> <<>>]
ExportStatus(s, cs) == [present |-> TRUE, status |-> s, chunks |-> cs]
NoRet == [returned |-> FALSE, status |-> NoStatus, err |-> NoErr, cause |-> "none"]
RetOK(s) == [returned |-> TRUE, status |-> s, err |-> NoErr, cause |-> "none"]
RetErr(e, c) == [returned |-> TRUE, status |-> NoStatus, err |-> e, cause |-> c]

ChunkIds == 1..MaxChunkId
ChunkLists == UNION {[1..n -> ChunkIds] : n \in 0..MaxChunks}
PartialLists == {<<>>, <<1>>}
NonTerminal == {"QUEUED", "PROCESSING"}
Terminal == {"FINISHED", "CANCELLED", "ERROR"}
ExportTypes == {"assets", "vulns", "compliance"}

\* What the backend may answer to a status poll.
StatusResponses ==
    {ExportStatus(s, cs) : s \in NonTerminal, cs \in PartialLists}
    \cup {ExportStatus("FINISHED", cs) : cs \in ChunkLists}
    \cup {ExportStatus("CANCELLED", <<>>), ExportStatus("ERROR", <<>>)}

\* How callers tell Go errors apart: by dynamic type (errors.As) or by
\* sentinel (errors.Is); Message is free text.
Kind(e) == e.type

\* Client.Get: a request that does not complete is a ConnectionError, a
\* non-2xx answer an APIError.  A request on a done context does not complete.
ExportStatusResults ==
    IF cancelled
    THEN {[err |-> ConnectionError, cause |-> "callerCancel", status |-> NoStatus]}
    ELSE {[err |-> ConnectionError, cause |-> "transport", status |-> NoStatus],
          [err |-> APIError, cause |-> "api", status |-> NoStatus]}
         \cup {[err |-> NoErr, cause |-> "none", status |-> s] : s \in StatusResponses}

\* The switch on status.Status.
\* Mutant: no case for ERROR, as in a loop that only looks for success.
OnStatus_noError(s) ==
    CASE s.status = "FINISHED" -> RetOK(s)
      [] s.status = "CANCELLED" ->
           RetErr(ExportError("export cancelled"), "remoteCancelled")
      [] OTHER -> NoRet

\* Mutant: ERROR ends the wait like FINISHED.
OnStatus_errorAsFinished(s) ==
    CASE s.status \in {"FINISHED", "ERROR"} -> RetOK(s)
      [] s.status = "CANCELLED" ->
           RetErr(ExportError("export cancelled"), "remoteCancelled")
      [] OTHER -> NoRet

OnStatus(s) ==
    CASE s.status = "FINISHED" -> RetOK(s)
      [] s.status = "CANCELLED" ->
           RetErr(ExportError("export cancelled"), "remoteCancelled")
      [] s.status = "ERROR" -> RetErr(ExportError("export failed"), "remoteError")
      [] OTHER -> NoRet

WaitReturn(r) ==
    /\ wret' = r
    /\ wpc' = "returned"
    /\ outcomes' = IF r.err # NoErr
                   THEN outcomes \cup {[cause |-> r.cause, kind |-> Kind(r.err)]}
                   ELSE outcomes

\* One iteration of the loop up to the select: the exportType switch, the
\* status request and the switch on the answer.
Poll ==
    /\ wpc = "poll"
    /\ IF exportType \notin ExportTypes
       THEN /\ WaitReturn(RetErr(ValidationError, "validation"))
            /\ UNCHANGED <<polls, pollLog, lastPoll, faulted>>
       ELSE \E res \in ExportStatusResults :
            /\ polls' = polls + 1
            /\ IF res.err # NoErr
               THEN /\ WaitReturn(RetErr(res.err, res.cause))
                    /\ faulted' = TRUE
                    /\ UNCHANGED <<pollLog, lastPoll>>
               ELSE /\ res.status.status \in NonTerminal => polls + 1 < MaxPolls
                    /\ pollLog' = Append(pollLog, res.status.status)
                    /\ lastPoll' = res.status
                    /\ faulted' = faulted
                    /\ IF OnStatus(res.status).returned
                       THEN WaitReturn(OnStatus(res.status))
                       ELSE /\ wpc' = "wait"
                            /\ UNCHANGED <<wret, outcomes>>
    /\ UNCHANGED <<waits, cancelled, exportType>>
    /\ UNCHANGED <<ivars, exportUUID, status, currentChunk, epc, chunkSize, submits,
                   waitCalls, downloads>>

\* Mutant: the wait does not look at the context.
WaitTick_ignoresContext ==
    /\ wpc = "wait"
    /\ waits' = waits + 1
    /\ wpc' = "poll"
    /\ UNCHANGED <<polls, pollLog, lastPoll, wret, cancelled, exportType, outcomes>>
    /\ UNCHANGED <<ivars, evars>>

\* select: the timer fires first.  The poll interval is positive (a zero one
\* is replaced by 5s), so the timer is never ready when the select is entered:
\* a context that is done by then, or becomes done during the wait, wins.
WaitTick ==
    /\ wpc = "wait"
    /\ ~cancelled
    /\ waits' = waits + 1
    /\ wpc' = "poll"
    /\ UNCHANGED <<polls, pollLog, lastPoll, wret, cancelled, exportType, outcomes>>
    /\ UNCHANGED <<ivars, evars>>

\* select: ctx.Done() is ready.
WaitCancelled ==
    /\ wpc = "wait"
    /\ cancelled
    /\ WaitReturn(RetErr(ContextCanceled, "callerCancel"))
    /\ UNCHANGED <<polls, waits, pollLog, lastPoll, cancelled, exportType>>
    /\ UNCHANGED <<ivars, evars>>

\* The caller cancels the context of a running call.
Cancel ==
    /\ ~cancelled
    /\ wpc \in {"poll", "wait"}
    /\ cancelled' = TRUE
    /\ faulted' = TRUE
    /\ UNCHANGED <<wpc, polls, waits, pollLog, lastPoll, wret, exportType, outcomes>>
    /\ UNCHANGED <<ivars, exportUUID, status, currentChunk, epc, chunkSize, submits,
                   waitCalls, downloads>>

\* What a call of WaitForExport starts from.
EnterWait(t) ==
    /\ wpc' = "poll"
    /\ exportType' = t
    /\ polls' = 0
    /\ waits' = 0
    /\ pollLog' = <<>>
    /\ lastPoll' = NoStatus
    /\ wret' = NoRet
    /\ waitCalls' = waitCalls + 1

\* A direct call of WaitForExport, with a context of its own.
WaitCall ==
    /\ wpc \in {"none", "returned"}
    /\ waitCalls < MaxWaitCalls
    /\ \E t \in {"assets", "bogus"} : EnterWait(t)
    /\ cancelled' = FALSE
    /\ UNCHANGED <<outcomes, ivars>>
    /\ UNCHANGED <<exportUUID, status, currentChunk, epc, chunkSize, submits,
                   downloads, faulted>>

----------------------------------------------------------------------------
(* ExportsAPI.WaitForExport against a backend that may never finish *)

\* Status strings the switch on status.Status has no case for.
UnknownStatuses == {"SUSPENDED"}

\* What the backend may answer to a status poll, at any poll.
AnyStatusResults ==
    ExportStatusResults \cup
    (IF cancelled THEN {}
     ELSE {[err |-> NoErr, cause |-> "none", status |-> ExportStatus(s, <<>>)] :
             s \in UnknownStatuses})

\* Poll without a bound on the number of polls: the counters and the log
\* stop growing at MaxPolls, the loop does not.
PollOn ==
    /\ wpc = "poll"
    /\ IF exportType \notin ExportTypes
       THEN /\ WaitReturn(RetErr(ValidationError, "validation"))
            /\ UNCHANGED <<polls, pollLog, lastPoll, faulted>>
       ELSE \E res \in AnyStatusResults :
            /\ polls' = Min(polls + 1, MaxPolls)
            /\ IF res.err # NoErr
               THEN /\ WaitReturn(RetErr(res.err, res.cause))
                    /\ faulted' = TRUE
                    /\ UNCHANGED <<pollLog, lastPoll>>
               ELSE /\ pollLog' = IF Len(pollLog) < MaxPolls
                                  THEN Append(pollLog, res.status.status)
                                  ELSE pollLog
                    /\ lastPoll' = res.status
                    /\ faulted' = faulted
                    /\ IF OnStatus(res.status).returned
                       THEN WaitReturn(OnStatus(res.status))
                       ELSE /\ wpc' = "wait"
                            /\ UNCHANGED <<wret, outcomes>>
    /\ UNCHANGED <<waits, cancelled, exportType>>
    /\ UNCHANGED <<ivars, exportUUID, status, currentChunk, epc, chunkSize, submits,
                   waitCalls, downloads>>

\* WaitTick with a counter that stops growing at MaxPolls.
TickOn ==
    /\ wpc = "wait"
    /\ ~cancelled
    /\ waits' = Min(waits + 1, MaxPolls)
    /\ wpc' = "poll"
    /\ UNCHANGED <<polls, pollLog, lastPoll, wret, cancelled, exportType, outcomes>>
    /\ UNCHANGED <<ivars, evars>>

\* Mutant: the select has no ctx.Done() case.
CancelledOn_noDoneCase == FALSE /\ UNCHANGED vars

\* select: ctx.Done() is ready.
CancelledOn == WaitCancelled

----------------------------------------------------------------------------
(* ScansAPI.Export and WorkbenchesAPI.Export: the loops on the file status *)

Pollers == {"exports", "scans", "workbenches"}

\* What the backend may answer to a file status request.
FileStatuses == {"loading", "ready", "error"}

FileStatusResults ==
    IF cancelled
    THEN {[err |-> ConnectionError, cause |-> "callerCancel", status |-> NoStatus]}
    ELSE {[err |-> ConnectionError, cause |-> "transport", status |-> NoStatus],
          [err |-> APIError, cause |-> "api", status |-> NoStatus]}
         \cup {[err |-> NoErr, cause |-> "none", status |-> ExportStatus(s, <<>>)] :
                 s \in FileStatuses}

\* The tests on statusResp.Status: ScansAPI.Export looks for "ready" and
\* for "error", WorkbenchesAPI.Export for "ready" only.
FileOnStatus(loop, s) ==
    CASE s.status = "ready" -> RetOK(s)
      [] s.status = "error" /\ loop = "scans" ->
           RetErr(FileDownloadError, "remoteError")
      [] OTHER -> NoRet

\* The request that starts the export of a file; fileID is in its answer.
FileExportCall ==
    /\ poller \in {"scans", "workbenches"}
    /\ wpc = "none"
    /\ waitCalls' = waitCalls + 1
    /\ \E ok \in BOOLEAN :
         IF ok THEN wpc' = "poll" /\ UNCHANGED <<wret, outcomes>>
         ELSE WaitReturn(RetErr(ConnectionError, "transport"))
    /\ UNCHANGED <<polls, waits, pollLog, lastPoll, cancelled, exportType>>
    /\ UNCHANGED <<ivars, exportUUID, status, currentChunk, epc, chunkSize, submits,
                   downloads, faulted>>

\* One iteration of the loop up to the select: the status request and the
\* tests on the answer.  "ready" leaves the loop for the download.
FilePoll ==
    /\ poller \in {"scans", "workbenches"}
    /\ wpc = "poll"
    /\ \E res \in FileStatusResults :
         /\ polls' = Min(polls + 1, MaxPolls)
         /\ IF res.err # NoErr
            THEN /\ WaitReturn(RetErr(res.err, res.cause))
                 /\ UNCHANGED <<pollLog, lastPoll>>
            ELSE /\ pollLog' = IF Len(pollLog) < MaxPolls
                               THEN Append(pollLog, res.status.status)
                               ELSE pollLog
                 /\ lastPoll' = res.status
                 /\ IF FileOnStatus(poller, res.status).returned
                    THEN WaitReturn(FileOnStatus(poller, res.status))
                    ELSE /\ wpc' = "wait"
                         /\ UNCHANGED <<wret, outcomes>>
    /\ UNCHANGED <<waits, cancelled, exportType>>
    /\ UNCHANGED <<ivars, evars>>

----------------------------------------------------------------------------
(* ExportsAPI.AssetsIterator *)

\* The items the backend holds in chunk c.
ChunkItems(c) == [j \in 1..chunkSize[c] |-> 10 * c + j]

NeedSubmit(uuid) == uuid = ""

ExportTotal(s) == Len(s.chunks)

\* Mutant: the chunks are taken from the end of the list.
NextChunkID_reversed(s, c) == s.chunks[Len(s.chunks) - c]

\* chunkID := status.ChunksAvailable[currentChunk]
NextChunkID(s, c) == s.chunks[c + 1]

\* AssetsExport: the export_uuid of the answer, or the error of Client.Post.
AssetsExportResults ==
    {[err |-> ConnectionError, uuid |-> ""],
     [err |-> NoErr, uuid |-> "u1"],
     [err |-> NoErr, uuid |-> ""]}

\* The fetcher returns res: the suspended Next() call completes.
CompleteNext(res) ==
    /\ Returned(IterNext(it, res))
    /\ epc' = "idle"

\* The part of the fetcher after the submit: wait for the export unless a
\* status is held already.
AfterSubmit ==
    IF ~status.present
    THEN /\ epc' = "await"
         /\ EnterWait("assets")
         /\ UNCHANGED <<cancelled, outcomes>>
    ELSE /\ epc' = "chunk"
         /\ UNCHANGED <<waitCalls, wvars>>

\* The caller calls Next().  A call that does not reach the fetcher completes
\* at once; one that does runs the fetcher up to its first request.
ExportNext ==
    /\ epc = "idle"
    /\ falseRets < MaxFalseRets
    /\ IF ~IterNext(it, FetchFail(NoErr)).fetched
       THEN /\ CompleteNext(FetchFail(NoErr))
            /\ UNCHANGED <<waitCalls, wvars>>
       ELSE /\ IF NeedSubmit(exportUUID)
               THEN /\ epc' = "submit"
                    /\ UNCHANGED <<waitCalls, wvars>>
               ELSE AfterSubmit
            /\ UNCHANGED <<it, yielded, pagelog, fetches, fetchArgs, gotLog, lastRet, falseRets>>
    /\ UNCHANGED <<cfg, exportUUID, status, currentChunk,
                   chunkSize, submits, downloads, faulted>>

\* The submit request of the fetcher's first invocation.
FetcherSubmit ==
    /\ epc = "submit"
    /\ submits' = submits + 1
    /\ \E r \in AssetsExportResults :
         IF r.err # NoErr
         THEN /\ CompleteNext(FetchFail(r.err))
              /\ faulted' = TRUE
              /\ UNCHANGED <<exportUUID, waitCalls, wvars>>
         ELSE /\ exportUUID' = r.uuid
              /\ AfterSubmit
              /\ UNCHANGED <<it, yielded, pagelog, fetches, fetchArgs, gotLog,
                             lastRet, falseRets, faulted>>
    /\ UNCHANGED <<cfg, status, currentChunk, chunkSize, downloads>>

\* Mutant: the error of WaitForExport is dropped.
WaitFailed_ignored(r) == FALSE

\* s, err := e.WaitForExport(...); if err != nil
WaitFailed(r) == r.err # NoErr

\* WaitForExport has returned to the fetcher.
FetcherResume ==
    /\ epc = "await"
    /\ wpc = "returned"
    /\ IF WaitFailed(wret)
       THEN /\ CompleteNext(FetchFail(wret.err))
            /\ UNCHANGED status
       ELSE /\ status' = wret.status
            /\ epc' = "chunk"
            /\ UNCHANGED <<it, yielded, pagelog, fetches, fetchArgs, gotLog, lastRet, falseRets>>
    /\ UNCHANGED <<cfg, exportUUID, currentChunk, chunkSize,
                   submits, waitCalls, downloads, faulted, wvars>>

\* The rest of the fetcher: no chunk left, or the download of the next one.
FetcherChunk ==
    /\ epc = "chunk"
    /\ IF currentChunk >= Len(status.chunks)
       THEN /\ CompleteNext(FetchOK(RawPage(<<>>), Pagination(0)))
            /\ UNCHANGED <<currentChunk, downloads, faulted>>
       ELSE LET chunkID == NextChunkID(status, currentChunk)
            IN  /\ downloads' = Append(downloads, chunkID)
                /\ \E ok \in BOOLEAN :
                     IF ok
                     THEN /\ currentChunk' = currentChunk + 1
                          /\ CompleteNext(FetchOK(RawPage(ChunkItems(chunkID)),
                                                  Pagination(ExportTotal(status))))
                          /\ faulted' = faulted
                     ELSE /\ CompleteNext(FetchFail(ConnectionError))
                          /\ faulted' = TRUE
                          /\ UNCHANGED currentChunk
    /\ UNCHANGED <<cfg, exportUUID, status, chunkSize, submits,
                   waitCalls, wvars>>

----------------------------------------------------------------------------
(* Specifications *)

IterIdle(i) ==
    /\ it = i
    /\ fetchArgs = <<>>
    /\ gotLog = <<>>
    /\ lastCall = NoCall
    /\ ppc = "none"
    /\ received = <<>>
    /\ closes = 0
    /\ stopped = FALSE
    /\ yielded = <<>>
    /\ pagelog = <<>>
    /\ fetches = 0
    /\ lastRet = "none"
    /\ falseRets = 0

ExportIdle ==
    /\ exportUUID = ""
    /\ status = NoStatus
    /\ currentChunk = 0
    /\ epc = "idle"
    /\ submits = 0
    /\ waitCalls = 0
    /\ downloads = <<>>
    /\ faulted = FALSE

WaitIdle ==
    /\ wpc = "none"
    /\ polls = 0
    /\ waits = 0
    /\ pollLog = <<>>
    /\ lastPoll = NoStatus
    /\ wret = NoRet
    /\ cancelled = FALSE
    /\ exportType = "assets"
    /\ outcomes = {}

\* An Iterator over the fetcher of TestIterator.
Init ==
    /\ \E n \in 0..MaxN : src = [k \in 1..n |-> k]
    /\ \E l \in 1..MaxLimit, o \in 0..Len(src), m \in 0..MaxPagesCap :
         /\ IterIdle(NewIterator(l, o, m))
         /\ startOffset = o
    /\ failAt \in 0..MaxFailAt
    /\ failKind \in IF failAt = 0 THEN {"fetch"} ELSE {"fetch", "transform"}
    /\ fetcherKind \in {"total", "none"}
    /\ poller = "exports"
    /\ chunkSize = [c \in ChunkIds |-> 0]
    /\ ExportIdle
    /\ WaitIdle

\* The caller calls Next().
Advance ==
    /\ falseRets < MaxFalseRets
    /\ Returned(IterNext(it, faultyFetcher(FetchArgs(it).offset, FetchArgs(it).limit)))
    /\ lastCall' = NoCall
    /\ UNCHANGED <<params, cvars, evars, wvars>>

\* The caller calls All().
AllCall ==
    /\ falseRets < MaxFalseRets
    /\ LET r == All(CurRun)
       IN  /\ Install(r.m)
           /\ lastCall' = [op |-> "All", arg |-> 0, pre |-> CurRun,
                           items |-> r.res.items, err |-> r.res.err,
                           visited |-> <<>>,
                           collected |-> AllLoop(CurRun, <<>>, Len(src)).items]
    /\ UNCHANGED <<params, cvars, evars, wvars>>

\* The caller calls Take(n).
TakeCall ==
    /\ falseRets < MaxFalseRets
    /\ \E n \in 0..MaxTake :
         LET r == Take(CurRun, n)
         IN  /\ Install(r.m)
             /\ lastCall' = [op |-> "Take", arg |-> n, pre |-> CurRun,
                             items |-> r.res.items, err |-> r.res.err,
                             visited |-> <<>>,
                             collected |-> TakeLoop(CurRun, <<>>, n).items]
    /\ UNCHANGED <<params, cvars, evars, wvars>>

\* The caller calls ForEach(fn) with a visitor that fails on its failOn-th
\* call, or never (failOn = 0).
ForEachCall ==
    /\ falseRets < MaxFalseRets
    /\ \E failOn \in 0..MaxVisitFail :
         LET r == ForEach(CurRun, failOn)
         IN  /\ Install(r.m)
             /\ lastCall' = [op |-> "ForEach", arg |-> failOn, pre |-> CurRun,
                             items |-> <<>>, err |-> r.err,
                             visited |-> r.visited, collected |-> <<>>]
    /\ UNCHANGED <<params, cvars, evars, wvars>>

Next == Advance \/ AllCall \/ TakeCall \/ ForEachCall

Spec == Init /\ [][Next]_vars

\* WaitForExport called directly.
InitWait ==
    /\ src = <<>>
    /\ startOffset = 0
    /\ failAt = 0
    /\ failKind = "fetch"
    /\ fetcherKind = "total"
    /\ poller = "exports"
    /\ IterIdle(NewIterator(100, 0, 0))
    /\ chunkSize = [c \in ChunkIds |-> 0]
    /\ ExportIdle
    /\ WaitIdle

NextWait == WaitCall \/ Poll \/ WaitTick \/ WaitCancelled \/ Cancel

SpecWait == InitWait /\ [][NextWait]_vars

\* WaitForExport against a backend that may never finish.
\* One call of WaitForExport in a run.
CallOn == wpc = "none" /\ WaitCall

NextWaitOn == CallOn \/ PollOn \/ TickOn \/ CancelledOn \/ Cancel

\* Every status poll returns, the timer fires, and a select with a ready
\* case is left.  Nothing makes the caller cancel.
SpecWaitOn ==
    /\ InitWait /\ [][NextWaitOn]_vars
    /\ WF_vars(PollOn) /\ WF_vars(TickOn) /\ WF_vars(CancelledOn)

\* The polling loops of the library, one of them in each run.
InitPoll ==
    /\ src = <<>>
    /\ startOffset = 0
    /\ failAt = 0
    /\ failKind = "fetch"
    /\ fetcherKind = "total"
    /\ poller \in Pollers
    /\ IterIdle(NewIterator(100, 0, 0))
    /\ chunkSize = [c \in ChunkIds |-> 0]
    /\ ExportIdle
    /\ WaitIdle

ExportsCall == poller = "exports" /\ CallOn

ExportsPoll == poller = "exports" /\ PollOn

NextPoll ==
    \/ ExportsCall \/ ExportsPoll
    \/ FileExportCall \/ FilePoll
    \/ TickOn \/ CancelledOn \/ Cancel

SpecPoll == InitPoll /\ [][NextPoll]_vars

\* An iterator returned by AssetsIterator.
InitExport ==
    /\ src = <<>>
    /\ startOffset = 0
    /\ failAt = 0
    /\ failKind = "fetch"
    /\ fetcherKind = "total"
    /\ poller = "exports"
    /\ IterIdle(NewIterator(100, 0, 0))
    /\ chunkSize \in [ChunkIds -> 0..MaxChunkItems]
    /\ ExportIdle
    /\ WaitIdle

NextExport ==
    \/ ExportNext \/ FetcherSubmit \/ FetcherResume \/ FetcherChunk
    \/ Poll \/ WaitTick \/ WaitCancelled \/ Cancel

SpecExport == InitExport /\ [][NextExport]_vars

----------------------------------------------------------------------------
(* Properties of the Iterator over a fixed collection (Spec) *)

\* The items at positions o..N-1 of the collection.
From(o) == SubSeq(src, o + 1, Len(src))

\* Next() has answered false: the sequence is drained.
Drained == lastRet = "false"

\* C1: over a fetcher backed by a fixed collection of N items that reports
\* total = N, with a page size in 1..N, no page cap and a start at 0, the
\* items yielded are always the first items of the collection in order, and
\* once Next() has returned false they are exactly the N items and Err() is nil.
C1_Exhaustive ==
    (/\ fetcherKind = "total" /\ failAt = 0 /\ it.maxPages = 0
     /\ startOffset = 0 /\ it.limit \in 1..Len(src))
    => /\ IsPrefix(yielded, src)
       /\ Drained => (yielded = src /\ it.err = NoErr)

C1_Witness ==
    /\ fetcherKind = "total" /\ failAt = 0 /\ it.maxPages = 0 /\ startOffset = 0
    /\ Len(src) >= 3 /\ it.limit = 2
    /\ Drained /\ yielded = src

\* C3: when the fetcher or the transformer fails on the k-th page, Err() is
\* nil before that fetch and non-nil from it on; from then on every Next()
\* answers false, no other fetch is issued, and the items yielded are exactly
\* those of pages 1..k-1 in order.
C3_FailStop ==
    failAt > 0
    => /\ (fetches >= failAt) <=> (it.err # NoErr)
       /\ it.err # NoErr
          => /\ lastRet = "false"
             /\ fetches = failAt
             /\ Len(pagelog) = failAt - 1
             /\ yielded = Flatten(pagelog)

C3_Witness ==
    /\ failAt >= 2 /\ it.err # NoErr
    /\ falseRets >= 2 /\ Len(yielded) >= 2

\* C4: with maxPages = k > 0 and page size m the iterator yields at most k*m
\* items, issues at most k fetches, and unless a fetch fails Err() stays nil.
C4_PageCap ==
    it.maxPages > 0
    => /\ Len(yielded) <= it.maxPages * it.limit
       /\ it.count <= it.maxPages * it.limit
       /\ fetches <= it.maxPages
       /\ failAt = 0 => it.err = NoErr

C4_Witness ==
    /\ it.maxPages > 0 /\ failAt = 0 /\ startOffset = 0
    /\ Len(src) > it.maxPages * it.limit
    /\ Drained /\ Len(yielded) = it.maxPages * it.limit /\ it.limit >= 2
    /\ fetches = it.maxPages /\ it.err = NoErr

\* C5: created with a starting offset o in 0..N, for any page size and no
\* page cap, the iterator yields the items at positions o..N-1 in order: what
\* it has yielded is always a prefix of them, and all of them with Err() nil
\* once Next() has returned false.
C5_OffsetResume ==
    (fetcherKind = "total" /\ failAt = 0 /\ it.maxPages = 0)
    => /\ IsPrefix(yielded, From(startOffset))
       /\ Drained => (yielded = From(startOffset) /\ it.err = NoErr)

C5_Witness ==
    /\ fetcherKind = "total" /\ failAt = 0 /\ it.maxPages = 0
    /\ startOffset = 2 /\ Len(src) >= 4
    /\ Drained /\ yielded = From(2)

----------------------------------------------------------------------------
(* Properties of WaitForExport (SpecWait) *)

\* C6: WaitForExport returns successfully only on a poll that reports
\* FINISHED, every earlier poll having reported a non-terminal status; it has
\* then issued exactly as many polls as statuses were reported, with one wait
\* between two polls, and returns the status of that last poll, chunk list
\* included.  A terminal status is always the last one polled: the call has
\* returned and polls no more.
C6_WaitUntilReady ==
    /\ (wret.returned /\ wret.err = NoErr)
       => /\ Len(pollLog) >= 1
          /\ pollLog[Len(pollLog)] = "FINISHED"
          /\ \A k \in 1..(Len(pollLog) - 1) : pollLog[k] \notin Terminal
          /\ polls = Len(pollLog)
          /\ waits = polls - 1
          /\ wret.status = lastPoll
    /\ \A k \in 1..Len(pollLog) :
         pollLog[k] \in Terminal => (k = Len(pollLog) /\ wpc = "returned")

C6_Witness ==
    /\ wret.returned /\ wret.err = NoErr
    /\ polls = 3 /\ waits = 2
    /\ Len(wret.status.chunks) = 2

\* C7: when the context is cancelled while WaitForExport waits between two
\* polls, its next step is to return the context's error: no poll is issued
\* and no wait completes.
C7_Cancellation ==
    [][(wpc = "wait" /\ cancelled)
       => /\ wpc' = "returned"
          /\ wret' = RetErr(ContextCanceled, "callerCancel")
          /\ polls' = polls
          /\ waits' = waits]_vars

C7_Witness ==
    /\ wpc = "returned"
    /\ wret = RetErr(ContextCanceled, "callerCancel")
    /\ polls = 2 /\ waits = 1
    /\ \A k \in 1..Len(pollLog) : pollLog[k] \in NonTerminal

\* C10: a remote ERROR, a remote CANCELLED, a cancellation by the caller and
\* a transport failure of the poll are reported as four different kinds of
\* error: no two calls that failed for different of these causes returned
\* errors of the same kind.
C10_Classified ==
    \A a, b \in outcomes :
      (/\ a.cause # b.cause
       /\ {a.cause, b.cause} \subseteq
            {"remoteError", "remoteCancelled", "callerCancel", "transport"})
      => a.kind # b.kind

----------------------------------------------------------------------------
(* Properties of the export iterator (SpecExport) *)

\* The items of the chunks listed by the finished export, in list order.
ExportItems == Flatten([k \in 1..Len(status.chunks) |-> ChunkItems(status.chunks[k])])

\* C2: when the export was submitted and finished with chunks c1..cn of one or
\* more items each and no request failed, draining the iterator yields every item of every
\* chunk, in chunk order and in decoded order within a chunk, with Err() nil.
C2_ExportStreaming ==
    (/\ Drained /\ epc = "idle" /\ ~faulted
     /\ exportUUID # "" /\ status.present
     /\ \A k \in 1..Len(status.chunks) : chunkSize[status.chunks[k]] >= 1)
    => (yielded = ExportItems /\ it.err = NoErr)

\* C8: when the first poll reports ERROR, WaitForExport has returned the
\* ExportError "export failed", the iterator has yielded nothing, and once
\* its Next() has returned, it returned false with that error as Err().
C8_JobErrorTerminal ==
    (Len(pollLog) >= 1 /\ pollLog[1] = "ERROR")
    => /\ wpc = "returned"
       /\ wret.err = ExportError("export failed")
       /\ yielded = <<>>
       /\ epc = "idle" => (lastRet = "false" /\ it.err = wret.err)

C8_Witness ==
    /\ pollLog = <<"ERROR">>
    /\ epc = "idle" /\ falseRets = 2
    /\ Kind(it.err) = "ExportError"

\* C9: creating the iterator issues no request, and over its lifetime the
\* submit request is issued at most once and WaitForExport is called at most
\* once.
C9_SubmitOnce ==
    /\ (lastRet = "none" /\ epc = "idle") => (submits = 0 /\ polls = 0)
    /\ submits <= 1
    /\ waitCalls <= 1

\* ScansAPI.History: the caller's limit and offset go to the iterator as
\* they are.
History(limit, offset) == NewIterator(limit, offset, 0)

\* What the scan-history endpoint may answer to (offset, limit): an error of
\* the request, or a page of the history with the total it reports, which
\* decodes as 0 when the response carries no pagination object. What the
\* server does with a limit <= 0 is its own choice: reject it, answer with
\* no items, or fall back to a page size of its own.
ServerPageSizes(limit) == IF limit > 0 THEN {limit} ELSE {0, MaxLimit}

HistoryResponses(offset, limit) ==
    {FetchFail(ConnectionError), FetchFail(APIError)} \cup
    {FetchOK(RawPage(SubSeq(src, offset + 1, Min(offset + sz, Len(src)))),
             Pagination(t)) :
        sz \in ServerPageSizes(limit), t \in {Len(src), 0}}

InitHistory ==
    /\ \E n \in 0..MaxN : src = [k \in 1..n |-> k]
    /\ \E l \in -1..MaxLimit, o \in 0..Len(src) :
         /\ IterIdle(History(l, o))
         /\ startOffset = o
    /\ failAt = 0
    /\ failKind = "fetch"
    /\ fetcherKind = "total"
    /\ poller = "exports"
    /\ chunkSize = [c \in ChunkIds |-> 0]
    /\ ExportIdle
    /\ WaitIdle

\* The caller calls Next() on the iterator History returned.
HistoryNext ==
    /\ falseRets < MaxFalseRets
    /\ \E res \in HistoryResponses(FetchArgs(it).offset, FetchArgs(it).limit) :
         Returned(IterNext(it, res))
    /\ UNCHANGED <<cfg, evars, wvars>>

NextHistory == HistoryNext

SpecHistory == InitHistory /\ [][NextHistory]_vars

----------------------------------------------------------------------------
(* Iterator.Channel: a producer goroutine and the consumer of the channel *)

InitChannel ==
    /\ \E n \in 0..MaxN : src = [k \in 1..n |-> k]
    /\ \E l \in 1..MaxLimit : IterIdle(NewIterator(l, 0, 0))
    /\ startOffset = 0
    /\ failAt \in 0..MaxFailAt
    /\ failKind = "fetch"
    /\ fetcherKind \in {"total", "none"}
    /\ poller = "exports"
    /\ chunkSize = [c \in ChunkIds |-> 0]
    /\ ExportIdle
    /\ WaitIdle

\* Channel(): make(chan T) and the go statement.
ChannelCall ==
    /\ ppc = "none"
    /\ ppc' = "next"
    /\ UNCHANGED <<it, params, lastCall, received, closes, stopped, yielded,
                   pagelog, fetches, fetchArgs, gotLog, lastRet, falseRets, evars, wvars>>

\* A fetcher that honours its context fails once the context is cancelled;
\* one that ignores it (as the fetcher of TestIterator does) answers as ever.
ChannelFetches ==
    {faultyFetcher(FetchArgs(it).offset, FetchArgs(it).limit)} \cup
    (IF cancelled THEN {FetchFail(ConnectionError)} ELSE {})

\* Mutant: the goroutine closes the channel itself and the deferred close
\* runs as well.
Exit_twice == ppc' = "done" /\ closes' = closes + 2

\* The goroutine returns: the deferred close(ch) runs.
Exit == ppc' = "done" /\ closes' = closes + 1

\* The producer evaluates the loop condition it.Next().
ProdNext ==
    /\ ppc = "next"
    /\ \E res \in ChannelFetches :
         LET r == IterNext(it, res)
         IN  /\ Returned(r)
             /\ IF r.ret THEN ppc' = "send" /\ closes' = closes ELSE Exit
    /\ UNCHANGED <<params, lastCall, received, stopped, evars, wvars>>

\* case ch <- it.Item(): the channel is unbuffered, the send completes when
\* the consumer receives.
Recv ==
    /\ ppc = "send" /\ ~stopped
    /\ received' = Append(received, it.current)
    /\ ppc' = "next"
    /\ UNCHANGED <<it, params, lastCall, closes, stopped, yielded, pagelog,
                   fetches, fetchArgs, gotLog, lastRet, falseRets, evars, wvars>>

\* Mutant: the select has no ctx.Done() case.
ProdCancelled_noDoneCase == FALSE /\ UNCHANGED vars

\* case <-it.ctx.Done(): return
ProdCancelled ==
    /\ ppc = "send" /\ cancelled
    /\ Exit
    /\ UNCHANGED <<it, params, lastCall, received, stopped, yielded, pagelog,
                   fetches, fetchArgs, gotLog, lastRet, falseRets, evars, wvars>>

\* The consumer stops receiving from the channel.
ConsumerStop ==
    /\ ppc # "none" /\ ~stopped
    /\ stopped' = TRUE
    /\ UNCHANGED <<it, params, lastCall, ppc, received, closes, yielded, pagelog,
                   fetches, fetchArgs, gotLog, lastRet, falseRets, evars, wvars>>

\* The context the iterator was constructed with is cancelled.
ChanCancel ==
    /\ ppc # "none" /\ ~cancelled
    /\ cancelled' = TRUE
    /\ UNCHANGED <<ivars, evars, wpc, polls, waits, pollLog, lastPoll, wret,
                   exportType, outcomes>>

NextChannel ==
    ChannelCall \/ ProdNext \/ Recv \/ ProdCancelled \/ ConsumerStop \/ ChanCancel

\* The goroutine is scheduled, and a receive that stays possible happens:
\* the consumer receives until it stops.
SpecChannel ==
    /\ InitChannel /\ [][NextChannel]_vars
    /\ WF_vars(ProdNext) /\ WF_vars(Recv) /\ WF_vars(ProdCancelled)

----------------------------------------------------------------------------
(* All, Take, ForEach, fetch traces *)

\* The scenario: a collection 1..5, page size 2, from the start, no page
\* cap, no failure.
Scenario ==
    /\ src = <<1, 2, 3, 4, 5>>
    /\ it.limit = 2 /\ startOffset = 0 /\ it.maxPages = 0 /\ failAt = 0

\* An All() call on a new iterator has just returned.
AllFromStart == lastCall.op = "All" /\ lastCall.pre.fetches = 0 /\ lastCall.pre.it.count = 0

\* C11 as stated: in the scenario, whether the fetcher reports total = 5 or
\* no pagination info, a drained iterator has issued exactly four fetches,
\* the pages [1,2], [3,4], [5] and an empty one, and All() returns 1..5.
C11_FourFetches ==
    (Scenario /\ Drained)
    => /\ fetches = 4
       /\ pagelog = << <<1, 2>>, <<3, 4>>, <<5>> >>
       /\ AllFromStart => (lastCall.items = <<1, 2, 3, 4, 5>> /\ lastCall.err = NoErr)

\* C11 amended: in the scenario a drained iterator has fetched the pages
\* [1,2], [3,4], [5] at offsets 0, 2, 4; when the fetcher reports total = 5
\* these three fetches are all, when it reports no pagination info a fourth
\* fetch at offset 5 returned the empty page; All() returns 1..5 either way.
C11_FetchTrace ==
    (Scenario /\ Drained)
    => /\ pagelog = << <<1, 2>>, <<3, 4>>, <<5>> >>
       /\ fetches = IF fetcherKind = "total" THEN 3 ELSE 4
       /\ fetchArgs = [k \in 1..fetches |->
                          [offset |-> IF k = 4 THEN 5 ELSE 2 * (k - 1), limit |-> 2]]
       /\ fetcherKind = "none" => createFetcher(5, 2).data = RawPage(<<>>)
       /\ yielded = <<1, 2, 3, 4, 5>>
       /\ it.err = NoErr
       /\ AllFromStart => (lastCall.items = <<1, 2, 3, 4, 5>> /\ lastCall.err = NoErr)

C11_Witness ==
    /\ Scenario /\ Drained /\ AllFromStart
    /\ fetcherKind = "total" /\ fetches = 3
    /\ lastCall.items = <<1, 2, 3, 4, 5>>

\* C12: Count() is the number of Next() calls that have returned true: 0 on
\* a new iterator, one more after each Next() that returns true, and the
\* same after a Next() that returns false.
C12_CountIsYielded ==
    /\ it.count = Len(yielded)
    /\ lastRet = "none" => it.count = 0

C12_Witness ==
    /\ it.count = 3 /\ Len(yielded) = 3
    /\ Len(pagelog) = 2
    /\ falseRets = 2

\* No Next() call from m on records an error.
NoErrorAhead(m) == All(m).m.it.err = NoErr

\* C13: when the iterator has r items remaining and no error lies ahead,
\* Take(n) returns exactly the next min(n, r) items with a nil error and
\* consumes nothing beyond them: the items of Take(n) followed by the items
\* of an All() called next are the items of All() called instead.
C13_TakePrefix ==
    (lastCall.op = "Take" /\ NoErrorAhead(lastCall.pre))
    => LET whole == All(lastCall.pre).res.items
           rest == All(CurRun).res
           k == Min(lastCall.arg, Len(whole))
       IN  /\ lastCall.err = NoErr
           /\ lastCall.items = SubSeq(whole, 1, k)
           /\ it.count = lastCall.pre.it.count + k
           /\ rest.err = NoErr
           /\ lastCall.items \o rest.items = whole
           /\ it.maxPages = 0 => lastCall.pre.yielded \o whole = From(startOffset)

C13_Witness ==
    /\ lastCall.op = "Take" /\ lastCall.arg = 2 /\ NoErrorAhead(lastCall.pre)
    /\ lastCall.pre.it.count = 1
    /\ lastCall.items = <<2, 3>>
    /\ All(CurRun).res.items = <<4, 5>>

\* C14: ForEach calls the visitor once per item, in sequence order. When the
\* visitor fails on its j-th item ForEach returns exactly that error, the
\* visitor is not called again, the iterator is where j successful Next()
\* calls leave it (no further page fetched) and Err() stays nil. When the
\* visitor never fails it is called on every remaining item and ForEach
\* returns it.Err().
C14_ForEachEarlyExit ==
    lastCall.op = "ForEach"
    => LET whole == AllLoop(lastCall.pre, <<>>, Len(src))
           j == lastCall.arg
       IN  IF j # 0 /\ Len(whole.items) >= j
           THEN /\ lastCall.err = VisitorError
                /\ lastCall.visited = SubSeq(whole.items, 1, j)
                /\ CurRun = TakeLoop(lastCall.pre, <<>>, j).m
                /\ lastRet = "true"
                /\ it.err = NoErr
           ELSE /\ lastCall.visited = whole.items
                /\ lastCall.err = it.err
                /\ CurRun = whole.m
                /\ lastRet = "false"

C14_Witness ==
    /\ lastCall.op = "ForEach" /\ lastCall.arg = 2
    /\ lastCall.err = VisitorError
    /\ lastCall.visited = <<1, 2>>
    /\ Len(src) = 5 /\ it.limit = 2 /\ fetches = 1

\* C15: once Err() is non-nil it stays that same error, and every All(),
\* Take(n) or ForEach(fn) called after the error returns that same error
\* and calls neither the fetcher nor the visitor.
C15_ErrorIdempotent ==
    [][it.err # NoErr
       => /\ it'.err = it.err
          /\ fetches' = fetches
          /\ lastCall'.op # "none"
             => /\ lastCall'.err = it.err
                /\ lastCall'.visited = <<>>
                /\ lastCall'.items = <<>>]_vars

C15_Witness ==
    /\ it.err = ConnectionError
    /\ lastCall.op = "ForEach" /\ lastCall.pre.it.err = ConnectionError
    /\ lastCall.err = ConnectionError /\ lastCall.visited = <<>>
    /\ fetches = lastCall.pre.fetches
    /\ Len(yielded) >= 1

\* C16: when a fetch fails on page k >= 2 during All() or Take(n), the items
\* of pages 1..k-1 that the call consumed are handed to the caller together
\* with the error.
C16_PartialResults ==
    (/\ lastCall.op \in {"All", "Take"}
     /\ lastCall.pre.it.err = NoErr /\ it.err # NoErr
     /\ failKind = "fetch" /\ failAt >= 2)
    => /\ lastCall.err = it.err
       /\ lastCall.items = lastCall.collected

\* C17: a limit <= 0 fails with a validation error when the iterator is
\* constructed, so that the fetcher is never invoked with a limit <= 0,
\* also for an iterator obtained from ScansAPI.History.
C17_LimitValidated ==
    \A k \in 1..Len(fetchArgs) : fetchArgs[k].limit > 0

----------------------------------------------------------------------------
(* Channel *)

ChannelSafe ==
    /\ closes <= 1
    /\ closes = 1 <=> ppc = "done"
    /\ IsPrefix(received, yielded)
    /\ Len(yielded) <= Len(received) + 1
    /\ IsPrefix(yielded, src)

\* C18: the channel is closed exactly once and nothing is sent on it after
\* the close; before the close the consumer receives the items in sequence
\* order, each at most once; and in every run where the consumer keeps
\* receiving, the channel is eventually closed, the sequence having
\* completed or hit a fetch error.
C18_ChannelCloses ==
    /\ []ChannelSafe
    /\ [][closes >= 1 => (received' = received /\ closes' = closes)]_vars
    /\ ([]~stopped /\ <>(ppc # "none")) => <>(closes = 1)

C18_Witness ==
    /\ closes = 1 /\ ppc = "done"
    /\ ~stopped /\ ~cancelled
    /\ received = <<1, 2, 3>> /\ src = <<1, 2, 3>>
    /\ it.err = NoErr /\ Len(pagelog) = 2

\* C19 as stated: if the consumer stops receiving, the producer does not
\* stay blocked forever on a send; and once the iterator's context is
\* cancelled the producer eventually exits and closes the channel.
C19_NeverBlocked ==
    /\ stopped ~> (ppc # "send")
    /\ cancelled ~> (closes = 1)

\* C19 amended: a producer blocked on a send after the consumer stopped is
\* released by the cancellation of the iterator's context, and by nothing
\* else: once the context is cancelled the producer eventually exits and
\* closes the channel, and until then it stays where it is.
C19_ReleasedByCancel ==
    /\ (cancelled /\ ppc # "none") ~> (closes = 1 /\ ppc = "done")
    /\ [][(stopped /\ ppc = "send" /\ ~cancelled /\ ~cancelled') => ppc' = "send"]_vars

C19_Witness ==
    /\ stopped /\ cancelled
    /\ closes = 1 /\ ppc = "done"
    /\ lastRet = "true"
    /\ Len(yielded) = Len(received) + 1

----------------------------------------------------------------------------
(* Terminal states *)

\* C20: once Next() has returned false, for whatever reason (total reached,
\* page cap, zero-item page, fetch or transform error), every later Next()
\* returns false, the fetcher is not invoked again, and count, offset, total,
\* the current item and Err() stay as they are.
C20_TerminalAbsorbing ==
    [][lastRet = "false"
       => /\ lastRet' = "false"
          /\ fetches' = fetches /\ fetchArgs' = fetchArgs
          /\ yielded' = yielded
          /\ it'.count = it.count /\ it'.offset = it.offset
          /\ it'.total = it.total /\ it'.current = it.current
          /\ it'.err = it.err]_vars

C20_Witness ==
    /\ lastRet = "false" /\ falseRets = 2
    /\ fetcherKind = "none" /\ it.done /\ it.total = -1
    /\ yielded = <<1, 2, 3>> /\ fetches = 3

----------------------------------------------------------------------------
(* Total, offsets, empty pages, laziness *)

\* C21: after a fetch has set the iterator's total to a known value (>= 0),
\* Total() keeps that value for the rest of the iterator's lifetime: later
\* pages that report a different total do not change it.
C21_TotalFixed ==
    [][it.total >= 0 => it'.total = it.total]_vars

RECURSIVE ItemsBefore(_, _)
\* The number of items of the first k pages of a page log.
ItemsBefore(log, k) == IF k = 0 THEN 0 ELSE ItemsBefore(log, k - 1) + Len(log[k])

\* C22: the offset passed to the k-th fetch is the starting offset plus the
\* number of items the fetches 1..k-1 returned (not (k-1) * limit), the limit
\* passed to every fetch is the configured page size, and the offset never
\* decreases.
C22_OffsetBookkeeping ==
    /\ Len(pagelog) \in {Len(fetchArgs), Len(fetchArgs) - 1}
    /\ \A k \in 1..Len(fetchArgs) :
         /\ fetchArgs[k].offset = startOffset + ItemsBefore(pagelog, k - 1)
         /\ fetchArgs[k].limit = it.limit
         /\ k > 1 => fetchArgs[k].offset >= fetchArgs[k - 1].offset
    /\ it.offset = startOffset + ItemsBefore(pagelog, Len(pagelog))

C22_Witness ==
    /\ it.limit = 2 /\ startOffset = 0
    /\ Len(fetchArgs) = 4 /\ fetchArgs[4].offset = 5
    /\ Len(pagelog) = 3 /\ Len(pagelog[3]) = 1

\* C23: a fetch whose page decodes to zero items ends the sequence
\* gracefully, Next() returning false with Err() nil, whatever total that
\* fetch or an earlier one reported; with a fetcher that always returns zero
\* items the first Next() returns false and Count() stays 0.
C23_ZeroItemsDone ==
    (gotLog # <<>> /\ gotLog[Len(gotLog)] = 0)
    => /\ lastRet = "false"
       /\ it.done /\ it.err = NoErr
       /\ it.count = Len(yielded)
       /\ Len(gotLog) = 1 => (it.count = 0 /\ yielded = <<>>)

C23_Witness ==
    /\ gotLog = <<0>>
    /\ it.limit = 2 /\ startOffset = 3
    /\ it.total = 3 /\ Len(src) = 3
    /\ lastRet = "false" /\ it.err = NoErr /\ it.count = 0

\* C24: constructing an iterator issues no fetch; a fetch is issued only
\* inside a Next() call made when every item of the current page has been
\* yielded; a Next() call issues at most one fetch; and the items yielded are
\* always a prefix of the concatenation of the fetched pages in fetch order.
C24_Lazy ==
    /\ [](lastRet = "none" => fetches = 0)
    /\ [](/\ IsPrefix(yielded, Flatten(pagelog))
          /\ pagelog # <<>> => Len(yielded) > ItemsBefore(pagelog, Len(pagelog) - 1)
          /\ fetches <= Len(yielded) + falseRets)
    /\ [][(fetches' # fetches /\ lastCall' = NoCall)
          => (it.pageIndex >= Len(it.page) /\ fetches' = fetches + 1)]_vars

C24_Witness ==
    /\ lastCall = NoCall /\ it.limit = 2
    /\ fetches = 2 /\ Len(pagelog) = 2
    /\ yielded = <<1, 2, 3>> /\ Len(src) = 5

\* C29: whenever a fetch succeeds and its page decodes to k >= 1 items, all
\* k items are yielded by later Next() calls before the iterator terminates,
\* for every total the backend may report (a total smaller than the number
\* of items fetched, or 0 from a backend that omits the pagination object).
C29_NoItemDropped ==
    (it.limit > 0 /\ Drained) => yielded = Flatten(pagelog)

----------------------------------------------------------------------------
(* Export iterator: chunks and failures *)

\* C25: the export iterator polls the job status no more once WaitForExport
\* has returned FINISHED; its k-th chunk download requests the k-th
\* identifier of the chunk list of that final poll, so that the chunks are
\* downloaded in the reported order, each list position at most once,
\* without re-sorting or de-duplication.
C25_ChunkOrderFrozen ==
    /\ [](IF status.present
          THEN /\ status.status = "FINISHED" /\ status = lastPoll
               /\ wpc = "returned"
               /\ IsPrefix(downloads, status.chunks)
               /\ Len(downloads) \in {currentChunk, currentChunk + 1}
          ELSE downloads = <<>> /\ currentChunk = 0)
    /\ [][status.present
          => (status' = status /\ polls' = polls /\ waitCalls' = waitCalls)]_vars

C25_Witness ==
    /\ status.present /\ status.chunks = <<2, 1>>
    /\ downloads = <<2, 1>>
    /\ polls = 2 /\ waitCalls = 1

\* A request of the export iterator has failed, or the job has: the error is
\* the iterator's, or WaitForExport has returned it to the fetcher.
ExportFailed ==
    \/ it.err # NoErr
    \/ epc = "await" /\ wpc = "returned" /\ wret.err # NoErr

\* C26: a failure of the submit request, of a status poll or of a chunk
\* download is not retried by the export iterator: it ends the poll loop,
\* becomes the iterator's Err() and ends the sequence, and the iterator
\* issues no further submit, poll or chunk download.
C26_NoRetry ==
    /\ []((faulted /\ epc = "idle") => (it.err # NoErr /\ lastRet = "false"))
    /\ [][ExportFailed
          => /\ submits' = submits /\ polls' = polls /\ waits' = waits
             /\ waitCalls' = waitCalls /\ downloads' = downloads
             /\ it'.err = (IF it.err # NoErr THEN it.err ELSE wret.err)
             /\ lastRet' = "false" /\ yielded' = yielded]_vars

C26_Witness ==
    /\ it.err = APIError /\ wret.err = APIError
    /\ submits = 1 /\ polls = 2 /\ downloads = <<>>
    /\ falseRets = 2

\* C30: when the finished export lists the chunks c1..cn and a chunk ci with
\* i < n decodes to zero items, the export iterator still downloads the
\* chunks ci+1..cn and yields their items before it terminates: a sequence
\* that has ended without error right after an empty chunk has yielded the
\* items of every chunk of the list.
C30_EmptyChunkSkipped ==
    (/\ Drained /\ it.err = NoErr /\ status.present /\ exportUUID # ""
     /\ downloads # <<>> /\ chunkSize[downloads[Len(downloads)]] = 0)
    => yielded = ExportItems

----------------------------------------------------------------------------
(* Polling loops *)

\* C27: for a call with a known export type, if the caller's context is
\* cancelled (and every status poll returns) WaitForExport eventually
\* returns, whatever statuses the backend reports, status strings it does
\* not know included: those are not terminal and it polls on. Without
\* cancellation it returns only when a poll has reported FINISHED, CANCELLED
\* or ERROR, or a poll has failed.
C27_EndsUnderCancellation ==
    /\ cancelled ~> (wpc = "returned")
    /\ [](wpc = "wait" => lastPoll.status \notin Terminal)
    /\ []((wpc = "returned" /\ ~cancelled /\ exportType \in ExportTypes)
          => \/ wret.err = NoErr /\ wret.status = lastPoll
                /\ lastPoll.status = "FINISHED"
             \/ wret.cause = "remoteCancelled" /\ lastPoll.status = "CANCELLED"
             \/ wret.cause = "remoteError" /\ lastPoll.status = "ERROR"
             \/ wret.cause \in {"transport", "api"})

C27_Witness ==
    /\ cancelled /\ wpc = "returned"
    /\ wret.err = ContextCanceled
    /\ lastPoll.status \in UnknownStatuses
    /\ polls = MaxPolls /\ waits = MaxPolls

\* The error status of a job: ERROR of an export job, error of a file export.
ErrorStatuses == {"ERROR", "error"}

\* C28: each polling loop of the library (ExportsAPI.WaitForExport,
\* ScansAPI.Export, WorkbenchesAPI.Export) leaves the polling state and
\* fails with an error when the backend has reported an error status for
\* the job: none of them waits or polls after such a status.
C28_ErrorStatusEndsPolling ==
    lastPoll.status \in ErrorStatuses
    => (wpc = "returned" /\ wret.err # NoErr)

====
